---- MODULE Spec2Model ----
(***************************************************************************)
(* Model of the negroni middleware stack (context variant): the linked     *)
(* chain of middleware nodes, its construction (New/build), in-place       *)
(* append (Use/appendMiddleware), enumeration (Handlers) and the           *)
(* continuation-passing traversal of one request (ServeHTTP/ServeHTTPC).   *)
(*                                                                         *)
(* Memory is a heap of middleware structs addressed 1..Len(heap); NULL is  *)
(* the nil pointer.  A serve call is run as an explicit call stack: one    *)
(* frame per running Handler body, one step per statement of that body.    *)
(***************************************************************************)
EXTENDS Integers, Sequences, FiniteSets, TLC

VARIABLES
  heap,        \* heap[a] = the middleware struct stored at address a
  n,           \* address of Negroni.middleware (the head, held by value)
  registered,  \* history: Handler values registered so far, in order
  newLen,      \* history: how many of them were given to New
  phase,       \* "idle" | "serving" | "done" | "panicked" | "usepanic"
  stack,       \* call stack of the serve call in progress
  log,         \* tokens emitted by the units during the current serve call
  sink,        \* writes that reached the underlying http.ResponseWriter
  rw,          \* the response wrapper of the current serve call
  req,         \* the context the current serve call was started with
  ref,         \* observation of an earlier serve call kept for comparison
  under,       \* the sink beneath the wrapper of the current serve call
  other,       \* the serve call of a second goroutine, while it is not running
  pending      \* the Use call in progress, between its field writes

vars ==
  <<heap, n, registered, newLen, phase, stack, log, sink, rw, req, ref,
    under, other, pending>>

----------------------------------------------------------------------------
(* Bounds of the model *)

MaxNew == 2      \* longest handler list given to New
MaxChain == 3    \* most units ever registered on the stack

----------------------------------------------------------------------------
(* Values *)

NULL == 0
StatusOK == 200
StatusBadRequest == 400
StatusUnset == 0

EmptyCtx == {}

\* A Handler interface value.  kind "func": a chain-aware HandlerFunc;
\* "wrap": Wrap(http.Handler); "wrapCH": WrapCH(ContextHandler); "nil": the
\* nil interface value.
Handler(kind, name) == [kind |-> kind, name |-> name]
NilHandler == Handler("nil", "nil")
Noop == Handler("func", "noop")

FuncNames == {"A", "B", "S"}
PlainNames == {"P1"}
ContextNames == {"CH"}

HandlerFunc(f) == Handler("func", f)
Wrap(p) == Handler("wrap", p)
WrapCH(c) == Handler("wrapCH", c)

\* Faulty bodies: the terminal node's handler calls its continuation.
FuncProg_noopContinues(f) ==
  CASE f = "A" -> << <<"tok", "enter">>, <<"ctx", "kA">>, <<"next">>,
                     <<"tok", "exit">> >>
    [] f = "B" -> << <<"tok", "enter">>, <<"ctx", "kB">>, <<"body", "bar">>,
                     <<"next">>, <<"body", "baz">>, <<"tok", "exit">> >>
    [] f = "S" -> << <<"tok", "enter">>, <<"hdr", StatusBadRequest>>,
                     <<"body", "hello">> >>
    [] f = "F" -> << <<"tok", "enter">>, <<"body", "part">>, <<"panic">> >>
    [] f = "D" -> << <<"tok", "enter">>, <<"next">>, <<"next">>,
                     <<"tok", "exit">> >>
    [] f = "H" -> << <<"tok", "enter">>, <<"next">>, <<"hdr", StatusOK>>,
                     <<"tok", "exit">> >>
    [] OTHER -> << <<"next">> >>

\* Bodies of the chain-aware units that the stack is exercised with.
\*  A: logs enter, adds a context value, continues, logs exit.
\*  B: as A, and writes "bar" before and "baz" after its continuation.
\*  S: logs enter, writes status 400 and a 5-byte body, does not continue.
\*  F: logs enter, writes a body, then fails (a panic in the handler).
\*  D: logs enter, continues twice, logs exit.
\*  H: logs enter, continues, writes status 200, logs exit.
\*  noop: the empty body of the terminal node's handler.
FuncProg(f) ==
  CASE f = "A" -> << <<"tok", "enter">>, <<"ctx", "kA">>, <<"next">>,
                     <<"tok", "exit">> >>
    [] f = "B" -> << <<"tok", "enter">>, <<"ctx", "kB">>, <<"body", "bar">>,
                     <<"next">>, <<"body", "baz">>, <<"tok", "exit">> >>
    [] f = "S" -> << <<"tok", "enter">>, <<"hdr", StatusBadRequest>>,
                     <<"body", "hello">> >>
    [] f = "F" -> << <<"tok", "enter">>, <<"body", "part">>, <<"panic">> >>
    [] f = "D" -> << <<"tok", "enter">>, <<"next">>, <<"next">>,
                     <<"tok", "exit">> >>
    [] f = "H" -> << <<"tok", "enter">>, <<"next">>, <<"hdr", StatusOK>>,
                     <<"tok", "exit">> >>
    [] OTHER -> << >>

\* Bodies of the plain handlers (they get no continuation).
\*  P1: an http.Handler writing "foo" and then status 200.
\*  CH: a ContextHandler that logs, adds a value to its own ctx, logs again.
PlainProg(p) ==
  CASE p = "P1" -> << <<"body", "foo">>, <<"hdr", StatusOK>> >>
    [] p = "CH" -> << <<"tok", "see">>, <<"ctx", "kL">>, <<"tok", "seeL">> >>
    [] OTHER -> << >>

\* A faulty adapter that does not continue.
WrapProg_noNext == << <<"call">> >>

\* A faulty adapter that continues before it calls the handler.
WrapProg_nextFirst == << <<"next">>, <<"call">> >>

\* The closure returned by Wrap / WrapCH: call the handler, then next.
WrapProg == << <<"call">>, <<"next">> >>

Prog(h) == IF h.kind = "func" THEN FuncProg(h.name) ELSE WrapProg

----------------------------------------------------------------------------
(* Chain construction *)

Node(h, nx) == [handler |-> h, next |-> nx]

\* A faulty terminal node: its handler is left nil.
voidMiddleware_nilHandler(hp) ==
  [heap |-> Append(hp, Node(NilHandler, NULL)),
   val  |-> Node(NilHandler, Len(hp) + 1)]

\* voidMiddleware(): allocates the bare &middleware{} and returns, by value,
\* the terminal node pointing at it.
voidMiddleware(hp) ==
  [heap |-> Append(hp, Node(NilHandler, NULL)),
   val  |-> Node(Noop, Len(hp) + 1)]

\* isVoidMiddleware dereferences m.next without a nil check.
isVoidPanics(hp, m) == m # NULL /\ hp[m].next = NULL

\* A faulty test that takes any node followed by a nil handler for the end.
isVoidMiddleware_handlerOnly(hp, m) ==
  IF m # NULL
    THEN LET next == hp[m].next
         IN  IF next # NULL /\ hp[next].handler = NilHandler
               THEN TRUE
               ELSE FALSE
    ELSE FALSE

isVoidMiddleware(hp, m) ==
  IF m # NULL
    THEN LET next == hp[m].next
         IN  IF next # NULL /\ hp[next].handler = NilHandler
                            /\ hp[next].next = NULL
               THEN TRUE
               ELSE FALSE
    ELSE FALSE

\* A faulty build that recurses only for more than two handlers.
RECURSIVE build_shortTail(_, _)
build_shortTail(hp, handlers) ==
  IF Len(handlers) = 0
    THEN voidMiddleware(hp)
    ELSE LET r == IF Len(handlers) > 2
                    THEN build_shortTail(hp, Tail(handlers))
                    ELSE voidMiddleware(hp)
         IN  [heap |-> Append(r.heap, r.val),
              val  |-> Node(Head(handlers), Len(r.heap) + 1)]

\* build(handlers): the local `next` of every call escapes to the heap.
RECURSIVE build(_, _)
build(hp, handlers) ==
  IF Len(handlers) = 0
    THEN voidMiddleware(hp)
    ELSE LET r == IF Len(handlers) > 1
                    THEN build(hp, Tail(handlers))
                    ELSE voidMiddleware(hp)
         IN  [heap |-> Append(r.heap, r.val),
              val  |-> Node(Head(handlers), Len(r.heap) + 1)]

\* New(handlers...): the Negroni struct holds build's result by value.
New(hp, handlers) ==
  LET r == build(hp, handlers)
  IN  [heap |-> Append(r.heap, r.val), n |-> Len(r.heap) + 1]

\* The loop `for !isVoidMiddleware(curr) { pre = curr; curr = curr.next }`.
\* st is "ok" when it ends, "panic" on a nil dereference, "loop" when it
\* would not end (fuel bounds the walk by the size of the heap).
RECURSIVE walkToVoid(_, _, _, _)
walkToVoid(hp, pre, curr, fuel) ==
  IF curr = NULL \/ isVoidPanics(hp, curr)
    THEN [st |-> "panic", pre |-> pre, curr |-> curr]
    ELSE IF isVoidMiddleware(hp, curr)
      THEN [st |-> "ok", pre |-> pre, curr |-> curr]
      ELSE IF fuel = 0
        THEN [st |-> "loop", pre |-> pre, curr |-> curr]
        ELSE walkToVoid(hp, curr, hp[curr].next, fuel - 1)

\* A faulty append that on an empty chain stores the handler in the head and
\* leaves the head's next as it was.
appendMiddleware_handlerOnly(hp, m, h) ==
  LET w == walkToVoid(hp, NULL, m, Len(hp))
  IN  IF w.st # "ok"
        THEN [heap |-> hp, ok |-> FALSE]
        ELSE IF w.pre = NULL
          THEN [heap |-> [hp EXCEPT ![m].handler = h], ok |-> TRUE]
          ELSE [heap |-> [Append(hp, Node(h, w.curr)) EXCEPT
                            ![w.pre].next = Len(hp) + 1],
                ok |-> TRUE]

\* A faulty append that gives the new node a terminal of its own.
appendMiddleware_freshTerminal(hp, m, h) ==
  LET w == walkToVoid(hp, NULL, m, Len(hp))
      v == voidMiddleware(hp)
  IN  IF w.st # "ok"
        THEN [heap |-> hp, ok |-> FALSE]
        ELSE IF w.pre = NULL
          THEN [heap |-> [Append(v.heap, v.val) EXCEPT
                            ![m] = Node(h, Len(v.heap) + 1)],
                ok |-> TRUE]
          ELSE [heap |-> [Append(Append(v.heap, v.val),
                                 Node(h, Len(v.heap) + 1)) EXCEPT
                            ![w.pre].next = Len(v.heap) + 2],
                ok |-> TRUE]

\* A faulty append that links the new node right behind the head.
appendMiddleware_behindHead(hp, m, h) ==
  LET w == walkToVoid(hp, NULL, m, Len(hp))
  IN  IF w.st # "ok"
        THEN [heap |-> hp, ok |-> FALSE]
        ELSE IF w.pre = NULL
          THEN LET v == voidMiddleware(hp)
               IN  [heap |-> [Append(v.heap, v.val) EXCEPT
                                ![m] = Node(h, Len(v.heap) + 1)],
                    ok |-> TRUE]
          ELSE [heap |-> [Append(hp, Node(h, hp[m].next)) EXCEPT
                            ![m].next = Len(hp) + 1],
                ok |-> TRUE]

appendMiddleware(hp, m, h) ==
  LET w == walkToVoid(hp, NULL, m, Len(hp))
  IN  IF w.st # "ok"
        THEN [heap |-> hp, ok |-> FALSE]
        ELSE IF w.pre = NULL
          THEN LET v == voidMiddleware(hp)
               IN  [heap |-> [Append(v.heap, v.val) EXCEPT
                                ![m] = Node(h, Len(v.heap) + 1)],
                    ok |-> TRUE]
          ELSE [heap |-> [Append(hp, Node(h, w.curr)) EXCEPT
                            ![w.pre].next = Len(hp) + 1],
                ok |-> TRUE]

\* A faulty enumeration that stops one node late, behind the terminal.
RECURSIVE collectHandlers_pastTerminal(_, _, _, _)
collectHandlers_pastTerminal(hp, curr, acc, fuel) ==
  IF curr = NULL
    THEN [st |-> "panic", handlers |-> acc]
    ELSE IF hp[curr].handler = NilHandler /\ hp[curr].next = NULL
      THEN [st |-> "ok", handlers |-> acc]
      ELSE IF fuel = 0
        THEN [st |-> "loop", handlers |-> acc]
        ELSE collectHandlers_pastTerminal(hp, hp[curr].next,
                             Append(acc, hp[curr].handler), fuel - 1)

\* Handlers(): the handlers of the nodes before the terminal one.
RECURSIVE collectHandlers(_, _, _, _)
collectHandlers(hp, curr, acc, fuel) ==
  IF curr = NULL \/ isVoidPanics(hp, curr)
    THEN [st |-> "panic", handlers |-> acc]
    ELSE IF isVoidMiddleware(hp, curr)
      THEN [st |-> "ok", handlers |-> acc]
      ELSE IF fuel = 0
        THEN [st |-> "loop", handlers |-> acc]
        ELSE collectHandlers(hp, hp[curr].next,
                             Append(acc, hp[curr].handler), fuel - 1)

Handlers(hp, m) == collectHandlers(hp, m, << >>, Len(hp))

----------------------------------------------------------------------------
(* Response wrapper *)

\* NewResponseWriter(rw): nothing observed yet.
NewResponseWriter == [status |-> StatusUnset, size |-> 0]

\* A faulty WriteHeader: the last status set is the observed one.
rwWriteHeader_lastWins(w, s) == [w EXCEPT !.status = s]

\* WriteHeader(s) on the wrapper: the first status set is the observed one.
rwWriteHeader(w, s) ==
  [w EXCEPT !.status = IF w.status = StatusUnset THEN s ELSE w.status]

\* Write(b) on the wrapper: an implicit 200 when no status was set yet.
rwWrite(w, b) ==
  [w EXCEPT !.status = IF w.status = StatusUnset THEN StatusOK ELSE w.status,
            !.size = w.size + Len(b)]

\* What Negroni.ServeHTTP can be given as its http.ResponseWriter: the
\* recorder of the transport, or a response wrapper made over it before.
SinkKinds == {"recorder", "wrapper"}
NoSink == [given |-> "none", inner |-> "none"]

\* A faulty NewResponseWriter that wraps whatever it is given.
responseWriterInner_noUnwrap(g) == g

\* The sink beneath the wrapper NewResponseWriter(g) returns: never a
\* response wrapper, the one beneath g is taken when g is a wrapper itself.
responseWriterInner(g) == IF g = "wrapper" THEN "recorder" ELSE g

----------------------------------------------------------------------------
(* Traversal of one request *)

\* frame.m is the receiver copy the body runs for (middleware.ServeHTTPC has
\* a value receiver); frame.bound is the receiver copy held by the method
\* value m.next.ServeHTTPC that the body gets as its continuation.
UnitFrame(node, m, c) ==
  [kind |-> "unit", node |-> node, m |-> m, bound |-> heap[m.next],
   pc |-> 1, ctx |-> c, ctx0 |-> c, calls |-> 0]

PlainFrame(f, c) ==
  [kind |-> "plain", node |-> f.node, m |-> f.m, bound |-> f.bound,
   pc |-> 1, ctx |-> c, ctx0 |-> c, calls |-> 0]

\* m.handler.ServeHTTP(ctx, rw, r, m.next.ServeHTTPC) on a nil handler or a
\* nil next pointer is a nil dereference.
invokePanics(m) == m.handler = NilHandler \/ m.next = NULL

FrameProg(f) ==
  IF f.kind = "plain" THEN PlainProg(f.m.handler.name) ELSE Prog(f.m.handler)

Top == stack[Len(stack)]
TopOp == FrameProg(Top)[Top.pc]
Running == phase = "serving" /\ Len(stack) > 0
AtOp(o) == Running /\ Top.pc <= Len(FrameProg(Top)) /\ TopOp[1] = o
Advance(f) == [f EXCEPT !.pc = f.pc + 1]
SetTop(f) == [stack EXCEPT ![Len(stack)] = f]

\* A faulty serve that goes on with the wrapper of the call before.
serve_keepsWrapper(c) ==
  /\ phase \in {"idle", "done", "panicked"}
  /\ rw' = rw
  /\ log' = << >>
  /\ sink' = << >>
  /\ IF invokePanics(heap[n])
       THEN phase' = "panicked" /\ stack' = << >>
       ELSE phase' = "serving" /\ stack' = << UnitFrame(n, heap[n], c) >>
  /\ req' = c
  /\ under' = [given |-> "recorder", inner |-> responseWriterInner("recorder")]
  /\ UNCHANGED <<heap, n, registered, newLen, ref, other, pending>>

\* A faulty serve that moves the head on to the node behind it.
serveOn_advancesHead(g, c) ==
  /\ phase \in {"idle", "done", "panicked"}
  /\ rw' = NewResponseWriter
  /\ log' = << >>
  /\ sink' = << >>
  /\ IF invokePanics(heap[n])
       THEN phase' = "panicked" /\ stack' = << >>
       ELSE phase' = "serving" /\ stack' = << UnitFrame(n, heap[n], c) >>
  /\ req' = c
  /\ under' = [given |-> g, inner |-> responseWriterInner(g)]
  /\ n' = heap[n].next
  /\ UNCHANGED <<heap, registered, newLen, ref, other, pending>>

\* n.middleware.ServeHTTPC(ctx, NewResponseWriter(rw), r), rw being a sink of
\* kind g.
serveOn(g, c) ==
  /\ phase \in {"idle", "done", "panicked"}
  /\ rw' = NewResponseWriter
  /\ log' = << >>
  /\ sink' = << >>
  /\ IF invokePanics(heap[n])
       THEN phase' = "panicked" /\ stack' = << >>
       ELSE phase' = "serving" /\ stack' = << UnitFrame(n, heap[n], c) >>
  /\ req' = c
  /\ under' = [given |-> g, inner |-> responseWriterInner(g)]
  /\ UNCHANGED <<heap, n, registered, newLen, ref, other, pending>>

\* A serve call given the recorder of the transport.
serve(c) == serveOn("recorder", c)

ServeHTTP == serve(EmptyCtx)

\* n.ServeHTTP(NewResponseWriter(response), req2)
ServeHTTPWrapped == serveOn("wrapper", EmptyCtx)

CtxInputs == {{"k0"}}

ServeHTTPC == \E c \in CtxInputs : serve(c)

\* A unit emits a token; the token records the context the unit sees.
Tok ==
  /\ AtOp("tok")
  /\ log' = Append(log, [u |-> Top.m.handler.name, t |-> TopOp[2],
                         ctx |-> Top.ctx])
  /\ stack' = SetTop(Advance(Top))
  /\ UNCHANGED <<heap, n, registered, newLen, phase, sink, rw, req, ref,
                 under, other, pending>>

\* rw.WriteHeader(s)
WriteHeader ==
  /\ AtOp("hdr")
  /\ rw' = rwWriteHeader(rw, TopOp[2])
  /\ sink' = Append(sink, <<"status", TopOp[2]>>)
  /\ stack' = SetTop(Advance(Top))
  /\ UNCHANGED <<heap, n, registered, newLen, phase, log, req, ref, under,
                 other, pending>>

\* rw.Write(b)
Write ==
  /\ AtOp("body")
  /\ rw' = rwWrite(rw, TopOp[2])
  /\ sink' = Append(sink, <<"body", TopOp[2]>>)
  /\ stack' = SetTop(Advance(Top))
  /\ UNCHANGED <<heap, n, registered, newLen, phase, log, req, ref, under,
                 other, pending>>

\* ctx = context.WithValue(ctx, key, ...)
WithValue ==
  /\ AtOp("ctx")
  /\ stack' = SetTop([Advance(Top) EXCEPT !.ctx = Top.ctx \cup {TopOp[2]}])
  /\ UNCHANGED
       <<heap, n, registered, newLen, phase, log, sink, rw, req, ref, under,
         other, pending>>

\* handler.ServeHTTP(rw, r) in Wrap, handler.ServeHTTPC(ctx, rw, r) in WrapCH
CallHandler ==
  /\ AtOp("call")
  /\ stack' = Append(SetTop(Advance(Top)),
                     PlainFrame(Top, IF Top.m.handler.kind = "wrapCH"
                                       THEN Top.ctx ELSE EmptyCtx))
  /\ UNCHANGED
       <<heap, n, registered, newLen, phase, log, sink, rw, req, ref, under,
         other, pending>>

\* A faulty continuation that starts the next unit with an empty context.
CallNext_backgroundCtx ==
  /\ AtOp("next")
  /\ LET caller == [Advance(Top) EXCEPT !.calls = Top.calls + 1]
     IN  IF invokePanics(Top.bound)
           THEN phase' = "panicked" /\ stack' = SetTop(caller)
           ELSE /\ phase' = phase
                /\ stack' = Append(SetTop(caller),
                                   UnitFrame(Top.m.next, Top.bound, EmptyCtx))
  /\ UNCHANGED <<heap, n, registered, newLen, log, sink, rw, req, ref, under,
                 other, pending>>

\* A faulty continuation that runs the rest of the chain only the first time
\* a unit calls it.
CallNext_onceOnly ==
  /\ AtOp("next")
  /\ LET caller == [Advance(Top) EXCEPT !.calls = Top.calls + 1]
     IN  IF invokePanics(Top.bound)
           THEN phase' = "panicked" /\ stack' = SetTop(caller)
           ELSE /\ phase' = phase
                /\ stack' = IF Top.calls >= 1
                              THEN SetTop(caller)
                              ELSE Append(SetTop(caller),
                                     UnitFrame(Top.m.next, Top.bound, Top.ctx))
  /\ UNCHANGED <<heap, n, registered, newLen, log, sink, rw, req, ref, under,
                 other, pending>>

\* next(ctx, rw, r): runs middleware.ServeHTTPC on the bound receiver copy.
CallNext ==
  /\ AtOp("next")
  /\ LET caller == [Advance(Top) EXCEPT !.calls = Top.calls + 1]
     IN  IF invokePanics(Top.bound)
           THEN phase' = "panicked" /\ stack' = SetTop(caller)
           ELSE /\ phase' = phase
                /\ stack' = Append(SetTop(caller),
                                   UnitFrame(Top.m.next, Top.bound, Top.ctx))
  /\ UNCHANGED <<heap, n, registered, newLen, log, sink, rw, req, ref, under,
                 other, pending>>

\* A faulty return: a unit that ends without having continued is continued
\* on its behalf.
Return_autoContinue ==
  /\ Running
  /\ Top.pc > Len(FrameProg(Top))
  /\ IF Top.kind = "unit" /\ Top.calls = 0 /\ ~invokePanics(Top.bound)
       THEN /\ stack' = Append(SetTop([Top EXCEPT !.calls = 1]),
                               UnitFrame(Top.m.next, Top.bound, Top.ctx))
            /\ phase' = phase
       ELSE /\ stack' = SubSeq(stack, 1, Len(stack) - 1)
            /\ phase' = IF Len(stack) = 1 THEN "done" ELSE phase
  /\ UNCHANGED <<heap, n, registered, newLen, log, sink, rw, req, ref, under,
                 other, pending>>

\* The body of the top frame has ended: return to the caller.
Return ==
  /\ Running
  /\ Top.pc > Len(FrameProg(Top))
  /\ stack' = SubSeq(stack, 1, Len(stack) - 1)
  /\ phase' = IF Len(stack) = 1 THEN "done" ELSE phase
  /\ UNCHANGED <<heap, n, registered, newLen, log, sink, rw, req, ref, under,
                 other, pending>>

\* A faulty traversal that recovers the failure of a unit and returns to the
\* unit before it as if the failing one had ended.
Panic_recovered ==
  /\ AtOp("panic")
  /\ stack' = SubSeq(stack, 1, Len(stack) - 1)
  /\ phase' = IF Len(stack) = 1 THEN "done" ELSE phase
  /\ UNCHANGED <<heap, n, registered, newLen, log, sink, rw, req, ref, under,
                 other, pending>>

\* A panic in a handler body: neither middleware.ServeHTTPC nor
\* Negroni.ServeHTTP recovers, so every frame of the serve call is abandoned
\* where it stands and the caller of ServeHTTP gets the panic.
Panic ==
  /\ AtOp("panic")
  /\ phase' = "panicked"
  /\ UNCHANGED <<heap, n, registered, newLen, stack, log, sink, rw, req, ref,
                 under, other, pending>>

----------------------------------------------------------------------------
(* Registration *)

NoRef == [set |-> FALSE]

\* A goroutine that has not served yet, and no Use call in progress.
IdleCall ==
  [phase |-> "idle", stack |-> << >>, log |-> << >>, sink |-> << >>,
   rw |-> NewResponseWriter, req |-> EmptyCtx, under |-> NoSink]
NoUse == [st |-> "none"]

\* appendMiddleware(&(n.middleware), handler).  Only the chain changes; what
\* was observed of an earlier serve call (log, sink, rw, req) is dropped, and
\* a failing append is recorded as phase "usepanic".
use(h) ==
  /\ phase \in {"idle", "done", "panicked"}
  /\ Len(registered) < MaxChain
  /\ LET r == appendMiddleware(heap, n, h)
     IN  /\ heap' = r.heap
         /\ phase' = IF r.ok THEN "idle" ELSE "usepanic"
  /\ registered' = Append(registered, h)
  /\ stack' = << >>
  /\ log' = << >>
  /\ sink' = << >>
  /\ rw' = NewResponseWriter
  /\ req' = EmptyCtx
  /\ under' = NoSink
  /\ UNCHANGED <<n, newLen, ref, other, pending>>

Use == \E h \in {HandlerFunc(f) : f \in FuncNames} \cup {NilHandler} : use(h)

UseFunc == \E f \in FuncNames : use(HandlerFunc(f))

UseHandler == \E p \in PlainNames : use(Wrap(p))

UseHandlerFunc == \E p \in PlainNames : use(Wrap(p))

UseContextHandler == \E c \in ContextNames : use(WrapCH(c))

UseContextHandlerFunc == \E c \in ContextNames : use(WrapCH(c))

\* Use of a unit that fails, and of a unit that continues twice.
UseFailing == use(HandlerFunc("F"))
UseTwice == use(HandlerFunc("D"))

\* Use of a unit that writes its status after the rest of the chain has run.
UseLate == use(HandlerFunc("H"))

----------------------------------------------------------------------------
(* Specification *)

Units == {HandlerFunc(f) : f \in FuncNames} \cup {Wrap(p) : p \in PlainNames}
           \cup {WrapCH(c) : c \in ContextNames} \cup {NilHandler}

RECURSIVE SeqsUpTo(_, _)
SeqsUpTo(S, k) ==
  IF k = 0 THEN {<< >>}
  ELSE LET shorter == SeqsUpTo(S, k - 1)
       IN  shorter \cup {Append(s, x) : s \in shorter, x \in S}

Init ==
  \E handlers \in SeqsUpTo(Units, MaxNew) :
    LET r == New(<< >>, handlers)
    IN  /\ heap = r.heap
        /\ n = r.n
        /\ registered = handlers
        /\ newLen = Len(handlers)
        /\ phase = "idle"
        /\ stack = << >>
        /\ log = << >>
        /\ sink = << >>
        /\ rw = NewResponseWriter
        /\ req = EmptyCtx
        /\ ref = NoRef
        /\ under = NoSink
        /\ other = IdleCall
        /\ pending = NoUse

Next ==
  \/ Use
  \/ UseFunc
  \/ UseHandler
  \/ UseHandlerFunc
  \/ UseContextHandler
  \/ UseContextHandlerFunc
  \/ ServeHTTP
  \/ ServeHTTPC
  \/ Tok
  \/ WriteHeader
  \/ Write
  \/ WithValue
  \/ CallHandler
  \/ CallNext
  \/ Return

Spec == Init /\ [][Next]_vars

\* A second stack is made from the whole unit sequence at once, after the
\* first one (made by New and Use) has served a request; what the first one
\* returned and did is kept in ref.
NewAll ==
  /\ phase \in {"done", "panicked"}
  /\ ~ref.set
  /\ ref' = [set |-> TRUE, units |-> registered, newLen |-> newLen,
             handlers |-> Handlers(heap, n), phase |-> phase, req |-> req,
             log |-> log, sink |-> sink, rw |-> rw]
  /\ LET r == New(heap, registered)
     IN  heap' = r.heap /\ n' = r.n
  /\ newLen' = Len(registered)
  /\ phase' = "idle"
  /\ stack' = << >>
  /\ log' = << >>
  /\ sink' = << >>
  /\ rw' = NewResponseWriter
  /\ req' = EmptyCtx
  /\ under' = NoSink
  /\ UNCHANGED <<registered, other, pending>>

NextEquiv == Next \/ NewAll

SpecEquiv == Init /\ [][NextEquiv]_vars

\* The chain, what Handlers() returns and what the last serve call did are
\* noted, to be compared with what they are after further serve calls.
Observe ==
  /\ phase \in {"idle", "done", "panicked"}
  /\ ~ref.set
  /\ ref' = [set |-> TRUE, units |-> registered, newLen |-> newLen,
             handlers |-> Handlers(heap, n), phase |-> phase, req |-> req,
             log |-> log, sink |-> sink, rw |-> rw, heap |-> heap, n |-> n]
  /\ UNCHANGED <<heap, n, registered, newLen, phase, stack, log, sink, rw, req,
                 under, other, pending>>

NextAgain == Next \/ Observe

SpecAgain == Init /\ [][NextAgain]_vars

\* Faulty goroutines that share one response wrapper.
Switch_sharedWrapper ==
  /\ other' = [phase |-> phase, stack |-> stack, log |-> log, sink |-> sink,
               rw |-> rw, req |-> req, under |-> under]
  /\ phase' = other.phase
  /\ stack' = other.stack
  /\ log' = other.log
  /\ sink' = other.sink
  /\ req' = other.req
  /\ under' = other.under
  /\ UNCHANGED <<heap, n, registered, newLen, ref, pending, rw>>

\* Two goroutines share the stack, each in its own call of ServeHTTP /
\* ServeHTTPC (or between two calls); the scheduler lets the other one go on.
\* What a call holds in its parameters and locals goes with its goroutine.
Switch ==
  /\ other' = [phase |-> phase, stack |-> stack, log |-> log, sink |-> sink,
               rw |-> rw, req |-> req, under |-> under]
  /\ phase' = other.phase
  /\ stack' = other.stack
  /\ log' = other.log
  /\ sink' = other.sink
  /\ rw' = other.rw
  /\ req' = other.req
  /\ under' = other.under
  /\ UNCHANGED <<heap, n, registered, newLen, ref, pending>>

\* Concurrent serve calls on a stack that is not registered to any more.
NextConc ==
  \/ ServeHTTP
  \/ ServeHTTPC
  \/ Tok
  \/ WriteHeader
  \/ Write
  \/ WithValue
  \/ CallHandler
  \/ CallNext
  \/ Return
  \/ Switch

SpecConc == Init /\ [][NextConc]_vars

\* A faulty append that links the new node right behind the head, as field
\* writes.
appendWrites_behindHead(hp, m, h) ==
  LET w == walkToVoid(hp, NULL, m, Len(hp))
      zero == Node(NilHandler, NULL)
  IN  IF w.pre = NULL
        THEN [heap |-> hp \o << zero, zero >>,
              writes |-> << [a |-> m, f |-> "handler", v |-> h],
                            [a |-> Len(hp) + 2, f |-> "handler", v |-> Noop],
                            [a |-> Len(hp) + 2, f |-> "next",
                             v |-> Len(hp) + 1],
                            [a |-> m, f |-> "next", v |-> Len(hp) + 2] >>]
        ELSE [heap |-> Append(hp, zero),
              writes |-> << [a |-> Len(hp) + 1, f |-> "handler", v |-> h],
                            [a |-> Len(hp) + 1, f |-> "next", v |-> hp[m].next],
                            [a |-> m, f |-> "next", v |-> Len(hp) + 1] >>]

\* appendMiddleware as the field writes it makes, in program order, after
\* its walk and with the memory it allocates (zeroed, and not reachable
\* before a write links it).  On an empty chain (pre == nil): m.handler = h,
\* the two fields of the local `next` that voidMiddleware() returns into,
\* m.next = &next.  Otherwise: the two fields of &middleware{h, curr}, then
\* pre.next.
appendWrites(hp, m, h) ==
  LET w == walkToVoid(hp, NULL, m, Len(hp))
      zero == Node(NilHandler, NULL)
  IN  IF w.pre = NULL
        THEN [heap |-> hp \o << zero, zero >>,
              writes |-> << [a |-> m, f |-> "handler", v |-> h],
                            [a |-> Len(hp) + 2, f |-> "handler", v |-> Noop],
                            [a |-> Len(hp) + 2, f |-> "next",
                             v |-> Len(hp) + 1],
                            [a |-> m, f |-> "next", v |-> Len(hp) + 2] >>]
        ELSE [heap |-> Append(hp, zero),
              writes |-> << [a |-> Len(hp) + 1, f |-> "handler", v |-> h],
                            [a |-> Len(hp) + 1, f |-> "next", v |-> w.curr],
                            [a |-> w.pre, f |-> "next", v |-> Len(hp) + 1] >>]

\* A Use call starts while serve calls may be running: the walk and the
\* allocations, which write nothing a serve call can reach.
UseWalk ==
  \E h \in Units :
    /\ pending.st = "none"
    /\ Len(registered) < MaxChain
    /\ walkToVoid(heap, NULL, n, Len(heap)).st = "ok"
    /\ LET r == appendWrites(heap, n, h)
       IN  /\ heap' = r.heap
           /\ pending' = [st |-> "writing", h |-> h, writes |-> r.writes,
                          left |-> 1..Len(r.writes), inOrder |-> TRUE,
                          expect |-> appendMiddleware(heap, n, h).heap]
    /\ UNCHANGED <<n, registered, newLen, phase, stack, log, sink, rw, req,
                   ref, under, other>>

\* One field write of the Use call in progress takes effect.  Use and serve
\* are not synchronised (a data race), so the writes may become visible to
\* the serving goroutine in program order or in any other order; inOrder
\* tells whether all so far came in program order.
UseWrite ==
  /\ pending.st = "writing"
  /\ \E i \in pending.left :
       LET w == pending.writes[i]
       IN  /\ heap' = [heap EXCEPT ![w.a][w.f] = w.v]
           /\ pending' = [pending EXCEPT
                            !.left = @ \ {i},
                            !.inOrder = @ /\ \A j \in pending.left : i <= j]
  /\ UNCHANGED <<n, registered, newLen, phase, stack, log, sink, rw, req,
                 ref, under, other>>

\* The Use call returns.
UseReturn ==
  /\ pending.st = "writing"
  /\ pending.left = {}
  /\ registered' = Append(registered, pending.h)
  /\ pending' = [pending EXCEPT !.st = "returned"]
  /\ UNCHANGED <<heap, n, newLen, phase, stack, log, sink, rw, req, ref,
                 under, other>>

\* One Use call, field write by field write, with serve calls at any moment.
NextRace ==
  \/ UseWalk
  \/ UseWrite
  \/ UseReturn
  \/ ServeHTTP
  \/ ServeHTTPC
  \/ Tok
  \/ WriteHeader
  \/ Write
  \/ WithValue
  \/ CallHandler
  \/ CallNext
  \/ Return

SpecRace == Init /\ [][NextRace]_vars

\* The stack exercised with a failing unit as well.
NextFail == Next \/ UseFailing \/ Panic

SpecFail == Init /\ [][NextFail]_vars

\* The stack exercised with a unit that continues twice as well.
NextTwice == Next \/ UseTwice

SpecTwice == Init /\ [][NextTwice]_vars

\* The stack exercised with a unit that writes a late status as well.
NextLate == Next \/ UseLate

SpecLate == Init /\ [][NextLate]_vars

\* The stack also given sinks that are response wrappers already.
NextWrapped == Next \/ ServeHTTPWrapped

SpecWrapped == Init /\ [][NextWrapped]_vars

----------------------------------------------------------------------------
(* Observations shared by the properties *)

\* The tokens of the log without the contexts they carry.
Tokens(l) == [i \in 1..Len(l) |-> <<l[i].u, l[i].t>>]

IsPrefix(s, t) == Len(s) <= Len(t) /\ SubSeq(t, 1, Len(s)) = s

Reverse(s) == [i \in 1..Len(s) |-> s[Len(s) + 1 - i]]

\* A unit that emits enter, calls its continuation exactly once, emits exit.
IsOnion(h) == h \in {HandlerFunc("A"), HandlerFunc("B")}

Enters(units) == [i \in 1..Len(units) |-> <<units[i].name, "enter">>]
Exits(units) == [i \in 1..Len(units) |-> <<units[i].name, "exit">>]

\* enter(U1) .. enter(Un) exit(Un) .. exit(U1)
OnionTrace(units) == Enters(units) \o Reverse(Exits(units))

\* The statements of a unit in the order they run: for an adapter, the
\* plain handler's statements followed by the call of the continuation.
UnitOps(h) ==
  IF h.kind = "func" THEN FuncProg(h.name)
  ELSE IF h.kind = "nil" THEN << >>
  ELSE PlainProg(h.name) \o << <<"next">> >>

NextPos(ops) ==
  IF \E i \in 1..Len(ops) : ops[i][1] = "next"
    THEN CHOOSE i \in 1..Len(ops) :
           ops[i][1] = "next" /\ \A j \in 1..(i - 1) : ops[j][1] # "next"
    ELSE Len(ops) + 1

PreOps(h) == SubSeq(UnitOps(h), 1, NextPos(UnitOps(h)) - 1)
PostOps(h) == SubSeq(UnitOps(h), NextPos(UnitOps(h)) + 1, Len(UnitOps(h)))

IsTok(o) == o[1] = "tok"
IsWrite(o) == o[1] \in {"hdr", "body"}

ToksOf(h, ops) ==
  LET t == SelectSeq(ops, IsTok)
  IN  [i \in 1..Len(t) |-> <<h.name, t[i][2]>>]

WritesOf(ops) ==
  LET w == SelectSeq(ops, IsWrite)
  IN  [i \in 1..Len(w) |->
         <<IF w[i][1] = "hdr" THEN "status" ELSE "body", w[i][2]>>]

\* Number of continuation calls a unit makes when it runs to its end.
NextCalls(h) == Len(SelectSeq(UnitOps(h), LAMBDA o : o[1] = "next"))

ContinuesOnce(h) == h # NilHandler /\ NextCalls(h) = 1
Stops(h) == h # NilHandler /\ NextCalls(h) = 0

\* pre[1] .. pre[k] post[k] .. post[1]
RECURSIVE Nest(_, _, _)
Nest(pre, post, k) ==
  IF k = 0 THEN << >>
  ELSE Head(pre) \o Nest(Tail(pre), Tail(post), k - 1) \o Head(post)

PreToks(units) == [i \in 1..Len(units) |-> ToksOf(units[i], PreOps(units[i]))]
PostToks(units) ==
  [i \in 1..Len(units) |-> ToksOf(units[i], PostOps(units[i]))]
PreWrites(units) == [i \in 1..Len(units) |-> WritesOf(PreOps(units[i]))]
PostWrites(units) == [i \in 1..Len(units) |-> WritesOf(PostOps(units[i]))]

\* Uk is the first unit that returns without continuing; all before it
\* continue exactly once.
ShortAt(units, k) ==
  /\ k \in 1..Len(units)
  /\ Stops(units[k])
  /\ \A i \in 1..(k - 1) : ContinuesOnce(units[i])

\* The status the unit writes first, StatusUnset if it writes none.
StatusWritten(h) ==
  LET w == SelectSeq(UnitOps(h), LAMBDA o : o[1] = "hdr")
  IN  IF Len(w) = 0 THEN StatusUnset ELSE w[1][2]

\* Every unit before Uk continues exactly once, so the traversal gets to Uk.
Reached(units, k) == \A i \in 1..(k - 1) : ContinuesOnce(units[i])

NoSeqs(units) == [i \in 1..Len(units) |-> << >>]

\* The context values a unit adds to the context it passes on: those a
\* chain-aware unit adds before it continues; an adapter passes on the
\* context it received.
PassedKeys(h) ==
  IF h.kind = "func"
    THEN {PreOps(h)[i][2] : i \in {j \in 1..Len(PreOps(h)) :
                                      PreOps(h)[j][1] = "ctx"}}
    ELSE {}

\* The context values a unit, or the plain handler it wraps, adds at all.
OwnKeys(h) ==
  {UnitOps(h)[i][2] : i \in {j \in 1..Len(UnitOps(h)) :
                                UnitOps(h)[j][1] = "ctx"}}

\* The context Uk receives: the request's and what U1..Uk-1 passed on.
Received(units, k) ==
  req \cup UNION {PassedKeys(units[i]) : i \in 1..(k - 1)}

Occurrences(seq, x) == Cardinality({i \in 1..Len(seq) : seq[i] = x})

IsAdapter(h) == h.kind \in {"wrap", "wrapCH"}

RECURSIVE SumBodies(_)
SumBodies(w) ==
  IF Len(w) = 0 THEN 0
  ELSE (IF Head(w)[1] = "body" THEN Len(Head(w)[2]) ELSE 0)
         + SumBodies(Tail(w))

----------------------------------------------------------------------------
(* Properties *)

\* C1 (onion order): when every registered unit emits enter, continues once
\* and emits exit, the tokens of a serve call are at every moment a prefix of
\* enter(U1)..enter(Un) exit(Un)..exit(U1), and exactly that sequence once
\* the call has returned.
C1_OnionOrder ==
  (\A i \in 1..Len(registered) : IsOnion(registered[i])) =>
     /\ IsPrefix(Tokens(log), OnionTrace(registered))
     /\ phase # "panicked"
     /\ phase = "done" => Tokens(log) = OnionTrace(registered)

C1_Witness ==
  /\ phase = "done"
  /\ newLen = 1
  /\ registered = <<HandlerFunc("A"), HandlerFunc("B"), HandlerFunc("A")>>
  /\ Tokens(log) = << <<"A", "enter">>, <<"B", "enter">>, <<"A", "enter">>,
                      <<"A", "exit">>, <<"B", "exit">>, <<"A", "exit">> >>

\* What a serve call short-circuited at Uk does, whatever follows Uk: the
\* tokens and the writes are those of U1..Uk on the way down and of
\* Uk-1..U1 on the way up, and nothing of Uk+1..Un.
ShortCircuitTrace(k) ==
  /\ IsPrefix(Tokens(log), Nest(PreToks(registered), PostToks(registered), k))
  /\ IsPrefix(sink, Nest(PreWrites(registered), PostWrites(registered), k))
  /\ phase # "panicked"
  /\ phase = "done" =>
       /\ Tokens(log) = Nest(PreToks(registered), PostToks(registered), k)
       /\ sink = Nest(PreWrites(registered), PostWrites(registered), k)

\* C2 as stated (short-circuit): the units up to Uk run, none after Uk does,
\* the units before Uk finish in reverse order, and the final observed
\* status is the one Uk wrote.
C2_AsStated ==
  \A k \in 1..Len(registered) :
    ShortAt(registered, k) =>
      /\ ShortCircuitTrace(k)
      /\ phase = "done" => rw.status = StatusWritten(registered[k])

\* C2 (short-circuit), amended: as stated, with the final observed status
\* being the one Uk wrote when no unit before Uk wrote a status or a body
\* before continuing.
C2_ShortCircuit ==
  \A k \in 1..Len(registered) :
    ShortAt(registered, k) =>
      /\ ShortCircuitTrace(k)
      /\ (phase = "done"
            /\ \A i \in 1..(k - 1) : PreWrites(registered)[i] = << >>)
           => rw.status = StatusWritten(registered[k])

C2_Witness ==
  /\ phase = "done"
  /\ registered = <<HandlerFunc("A"), HandlerFunc("S"), HandlerFunc("B")>>
  /\ Tokens(log) = << <<"A", "enter">>, <<"S", "enter">>, <<"A", "exit">> >>
  /\ rw.status = StatusBadRequest

\* C3 (enumeration): after New(H1..Hm) and k registration calls, Handlers()
\* returns without failing a sequence of length m+k that is the registered
\* units in registration order, repeated units once per registration, and
\* never the terminal node's no-op handler.
C3_Enumeration ==
  LET r == Handlers(heap, n)
  IN  /\ r.st = "ok"
      /\ Len(r.handlers) = Len(registered)
      /\ \A i \in 1..Len(registered) : r.handlers[i] = registered[i]
      /\ \A i \in 1..Len(r.handlers) : r.handlers[i] # Noop

C3_Witness ==
  /\ newLen = 1
  /\ Len(registered) = 3
  /\ registered[1] = registered[3]
  /\ registered[2] = Wrap("P1")
  /\ Handlers(heap, n).handlers = registered

\* C4 (append-after-build equivalence): the stack made by New(prefix) and
\* Use of each suffix unit, and the stack made by New(prefix ++ suffix), give
\* the same Handlers() and, for the same request, the same outcome, tokens,
\* writes and observed response.
C4_AppendEquivalence ==
  (ref.set /\ registered = ref.units) =>
     /\ Handlers(heap, n) = ref.handlers
     /\ (phase \in {"done", "panicked"} /\ req = ref.req) =>
          /\ phase = ref.phase
          /\ log = ref.log
          /\ sink = ref.sink
          /\ rw = ref.rw

C4_Witness ==
  /\ ref.set
  /\ ref.newLen = 1
  /\ ref.units = <<HandlerFunc("A"), HandlerFunc("B"), WrapCH("CH")>>
  /\ registered = ref.units
  /\ newLen = 3
  /\ phase = "done"
  /\ req = ref.req
  /\ Len(log) = 6
  /\ log = ref.log

\* C5 (empty chain): on a stack made by New() with no unit, Handlers() is
\* empty and a serve call returns normally having run no unit but the
\* terminal no-op, with no status write and no body write.
C5_EmptyChain ==
  registered = << >> =>
     /\ Handlers(heap, n) = [st |-> "ok", handlers |-> << >>]
     /\ phase \in {"idle", "serving", "done"}
     /\ log = << >>
     /\ sink = << >>
     /\ rw = NewResponseWriter
     /\ phase = "serving" =>
          /\ Len(stack) = 1
          /\ stack[1].m.handler = Noop
          /\ stack[1].pc > Len(FrameProg(stack[1]))

C5_Witness ==
  /\ registered = << >>
  /\ phase = "done"
  /\ sink = << >>
  /\ rw.status = StatusUnset

\* C6 (adapter units always continue): a unit made by Wrap or WrapCH runs
\* the plain handler first and alone, then calls its continuation exactly
\* once on the next node of the chain with the context it received itself
\* (which is also what a context handler is given), so the unit after an
\* adapter that is reached has run by the end of the serve call.
C6_AdapterContinues ==
  /\ \A i \in 1..Len(stack) :
       stack[i].kind = "plain" => i = Len(stack) /\ i > 1
  /\ \A i \in 1..Len(stack) :
       LET f == stack[i]
       IN  (f.kind = "unit" /\ IsAdapter(f.m.handler)) =>
             /\ f.ctx = f.ctx0
             /\ f.pc = 1 => f.calls = 0 /\ i = Len(stack)
             /\ f.pc = 2 =>
                  /\ f.calls = 0
                  /\ i < Len(stack) =>
                       /\ stack[i + 1].kind = "plain"
                       /\ f.m.handler.kind = "wrapCH"
                            => stack[i + 1].ctx0 = f.ctx0
             /\ f.pc = 3 =>
                  /\ f.calls = 1
                  /\ i < Len(stack) =>
                       /\ stack[i + 1].kind = "unit"
                       /\ stack[i + 1].node = heap[f.node].next
                       /\ stack[i + 1].m = heap[heap[f.node].next]
                       /\ stack[i + 1].ctx0 = f.ctx0
  /\ \A k \in 1..(Len(registered) - 1) :
       (/\ phase \in {"done", "panicked"}
        /\ IsAdapter(registered[k])
        /\ Reached(registered, k)
        /\ registered[k + 1] \in {HandlerFunc(f) : f \in FuncNames})
       => Occurrences(Tokens(log), <<registered[k + 1].name, "enter">>)
            >= Occurrences(SubSeq(registered, 1, k + 1), registered[k + 1])

C6_Witness ==
  /\ phase = "done"
  /\ registered = <<Wrap("P1"), WrapCH("CH"), HandlerFunc("S")>>
  /\ sink = << <<"body", "foo">>, <<"status", StatusOK>>,
               <<"status", StatusBadRequest>>, <<"body", "hello">> >>
  /\ Tokens(log) = << <<"CH", "see">>, <<"CH", "seeL">>, <<"S", "enter">> >>

\* C7 (context flows downward only): each unit receives exactly the context
\* the unit before it passed to its continuation, the first the request's;
\* what a unit has in its context when it continues is visible to every
\* later unit; a unit's context never holds a value other than those it
\* received and those it added itself, also after its continuation returned.
C7_ContextDownward ==
  /\ Len(stack) > 0 => stack[1].ctx0 = req
  /\ \A i \in 1..(Len(stack) - 1) :
       stack[i + 1].kind = "unit" => stack[i + 1].ctx0 = stack[i].ctx
  /\ \A i \in 1..Len(stack) : \A j \in i..Len(stack) :
       (stack[i].kind = "unit" /\ stack[j].kind = "unit")
         => stack[i].ctx \subseteq stack[j].ctx
  /\ \A i \in 1..Len(stack) :
       stack[i].ctx \subseteq stack[i].ctx0 \cup OwnKeys(stack[i].m.handler)
  /\ \A e \in 1..Len(log) :
       \E k \in 1..Len(registered) :
         /\ registered[k].name = log[e].u
         /\ Reached(registered, k)
         /\ Received(registered, k) \subseteq log[e].ctx
         /\ log[e].ctx \subseteq
              Received(registered, k) \cup OwnKeys(registered[k])

C7_Witness ==
  /\ phase = "done"
  /\ registered = <<HandlerFunc("A"), WrapCH("CH"), HandlerFunc("B")>>
  /\ log = << [u |-> "A", t |-> "enter", ctx |-> {"k0"}],
              [u |-> "CH", t |-> "see", ctx |-> {"k0", "kA"}],
              [u |-> "CH", t |-> "seeL", ctx |-> {"k0", "kA", "kL"}],
              [u |-> "B", t |-> "enter", ctx |-> {"k0", "kA"}],
              [u |-> "B", t |-> "exit", ctx |-> {"k0", "kA", "kB"}],
              [u |-> "A", t |-> "exit", ctx |-> {"k0", "kA"}] >>

\* The scenario of C8: the adapter of P1 (writes "foo", then status 200)
\* followed by B (writes "bar", continues, writes "baz").
C8_Scenario == registered = <<Wrap("P1"), HandlerFunc("B")>>

\* C8 as stated: the writes reach the sink in the order "foo", "bar",
\* status, "baz".
C8_AsStated ==
  (C8_Scenario /\ phase = "done") =>
     sink = << <<"body", "foo">>, <<"body", "bar">>,
               <<"status", StatusOK>>, <<"body", "baz">> >>

\* C8 (concrete scenario), amended: the writes reach the sink in the order
\* "foo", status 200, "bar", "baz" (the adapter runs all of P1 before it
\* continues into the second unit).
C8_WriteOrder ==
  C8_Scenario =>
     /\ IsPrefix(sink, << <<"body", "foo">>, <<"status", StatusOK>>,
                          <<"body", "bar">>, <<"body", "baz">> >>)
     /\ phase # "panicked"
     /\ phase = "done" => Len(sink) = 4

C8_Witness ==
  /\ C8_Scenario
  /\ phase = "done"
  /\ sink = << <<"body", "foo">>, <<"status", StatusOK>>,
               <<"body", "bar">>, <<"body", "baz">> >>

\* Some unit has written status 400 and then a 5-byte body, as entries i and
\* i+1 of the writes of this serve call.
Wrote400AndFive(i) ==
  /\ i \in 1..(Len(sink) - 1)
  /\ sink[i] = <<"status", StatusBadRequest>>
  /\ sink[i + 1][1] = "body"
  /\ Len(sink[i + 1][2]) = 5

\* C9 as stated: from then on the observed status is 400 and the observed
\* size is 5, whatever other units run.
C9_AsStated ==
  (\E i \in 1..Len(sink) : Wrote400AndFive(i)) =>
     rw.status = StatusBadRequest /\ rw.size = 5

\* C9 (wrapper correctness), amended: from then on the observed status is
\* 400 if nothing was written before that status in the serve call, and the
\* observed size is 5 plus the lengths of the other bodies written so far;
\* so both are 400 and 5 when no other unit writes.
C9_WrapperCorrect ==
  \A i \in 1..Len(sink) :
    Wrote400AndFive(i) =>
      /\ i = 1 => rw.status = StatusBadRequest
      /\ rw.size = 5 + SumBodies(SubSeq(sink, 1, i))
                     + SumBodies(SubSeq(sink, i + 2, Len(sink)))
      /\ Len(sink) = 2 => rw = [status |-> StatusBadRequest, size |-> 5]

C9_Witness ==
  /\ phase = "done"
  /\ registered = <<HandlerFunc("A"), HandlerFunc("S"), WrapCH("CH")>>
  /\ Wrote400AndFive(1)
  /\ rw = [status |-> StatusBadRequest, size |-> 5]

\* C10 (nil unit): registering never fails; a stack with a nil unit lists
\* every registered unit, the nil one and those registered after it, in
\* order; a serve call fails exactly when the traversal gets to a nil unit:
\* then the units before it have run their code up to their continuation
\* call and nothing else has run.
C10_NilUnit ==
  /\ phase # "usepanic"
  /\ (\E k \in 1..Len(registered) : registered[k] = NilHandler)
       => Handlers(heap, n) = [st |-> "ok", handlers |-> registered]
  /\ \A k \in 1..Len(registered) :
       (registered[k] = NilHandler /\ Reached(registered, k)) =>
          LET toks == Nest(PreToks(registered), NoSeqs(registered), k - 1)
              writes == Nest(PreWrites(registered), NoSeqs(registered), k - 1)
          IN  /\ phase # "done"
              /\ IsPrefix(Tokens(log), toks)
              /\ IsPrefix(sink, writes)
              /\ phase = "panicked" =>
                   /\ Tokens(log) = toks
                   /\ sink = writes
                   /\ Len(stack) = k - 1
  /\ phase = "panicked" =>
       \E k \in 1..Len(registered) :
         registered[k] = NilHandler /\ Reached(registered, k)

C10_Witness ==
  /\ phase = "panicked"
  /\ newLen = 0
  /\ registered = <<HandlerFunc("B"), NilHandler, HandlerFunc("A")>>
  /\ Handlers(heap, n).handlers = registered
  /\ Tokens(log) = << <<"B", "enter">> >>
  /\ sink = << <<"body", "bar">> >>

----------------------------------------------------------------------------
(* C11 *)

Fails(h) == \E i \in 1..Len(UnitOps(h)) : UnitOps(h)[i][1] = "panic"

\* C11 (failure propagates): when Uk fails and every unit before it
\* continues, the serve call never returns normally, nothing of Uk+1..Un and
\* nothing the units U1..Uk-1 do after their continuation happens, and when
\* the caller gets the failure everything written before it is still in the
\* sink and in the wrapper.
C11_FailurePropagates ==
  \A k \in 1..Len(registered) :
    (Fails(registered[k]) /\ Reached(registered, k)) =>
      /\ phase # "done"
      /\ IsPrefix(Tokens(log),
                  Nest(PreToks(registered), NoSeqs(registered), k))
      /\ IsPrefix(sink, Nest(PreWrites(registered), NoSeqs(registered), k))
      /\ phase = "panicked" =>
           /\ Tokens(log) = Nest(PreToks(registered), NoSeqs(registered), k)
           /\ sink = Nest(PreWrites(registered), NoSeqs(registered), k)
           /\ rw.size = SumBodies(sink)

C11_Witness ==
  /\ phase = "panicked"
  /\ registered = <<HandlerFunc("B"), HandlerFunc("F"), HandlerFunc("A")>>
  /\ Tokens(log) = << <<"B", "enter">>, <<"F", "enter">> >>
  /\ sink = << <<"body", "bar">>, <<"body", "part">> >>

----------------------------------------------------------------------------
(* C12 *)

----------------------------------------------------------------------------
(* C13 *)

\* The addresses met from a by following next, up to the nil pointer.
RECURSIVE chainPath(_, _, _)
chainPath(hp, a, fuel) ==
  IF a = NULL \/ fuel = 0 THEN << >>
  ELSE << a >> \o chainPath(hp, hp[a].next, fuel - 1)

\* A node has the shape of the terminal: the node behind it is a bare one.
terminalShaped(hp, a) == hp[a].next # NULL /\ isVoidMiddleware(hp, a)

\* C13 (chain shape): after New and any Use calls, the nodes met from the head
\* are distinct and end at the nil pointer, the node met after as many steps
\* as there are registered units is terminal-shaped and holds the no-op, and
\* no other node met from the head is terminal-shaped.
C13_ChainShape ==
  LET path == chainPath(heap, n, Len(heap) + 1)
      k == Len(registered)
  IN  /\ phase # "usepanic"
      /\ Len(path) = k + 2
      /\ \A i, j \in 1..Len(path) : path[i] = path[j] => i = j
      /\ heap[path[Len(path)]].next = NULL
      /\ terminalShaped(heap, path[k + 1])
      /\ heap[path[k + 1]].handler = Noop
      /\ \A i \in 1..Len(path) : terminalShaped(heap, path[i]) => i = k + 1
      /\ \A i \in 1..k : heap[path[i]].handler = registered[i]

C13_Witness ==
  /\ newLen = 0
  /\ registered = <<HandlerFunc("A"), NilHandler, Wrap("P1")>>
  /\ Len(chainPath(heap, n, Len(heap) + 1)) = 5
  /\ Len(heap) > 5

----------------------------------------------------------------------------
(* C14 *)

\* What one Use call may do to the heap.  On a chain of k >= 1 units: one
\* node is allocated, it holds the new handler and points at the terminal
\* the chain had, and of the nodes there were only the next field of the
\* last unit's node changes, to point at the new node.  On an empty chain:
\* the head gets the new handler and a next pointing at a newly allocated
\* terminal and bare node, and no other node changes.
appendFrame ==
  LET k == Len(registered)
      path == chainPath(heap, n, Len(heap) + 1)
      h == registered'[k + 1]
      old == 1..Len(heap)
  IN  /\ n' = n
      /\ IF k >= 1
           THEN /\ Len(heap') = Len(heap) + 1
                /\ \A a \in old \ {path[k]} : heap'[a] = heap[a]
                /\ heap'[path[k]].handler = heap[path[k]].handler
                /\ heap'[path[k]].next = Len(heap) + 1
                /\ heap'[Len(heap) + 1] = Node(h, path[k + 1])
                /\ terminalShaped(heap', path[k + 1])
           ELSE /\ Len(heap') = Len(heap) + 2
                /\ \A a \in old \ {n} : heap'[a] = heap[a]
                /\ heap'[n].handler = h
                /\ heap'[n].next \notin old
                /\ heap'[heap'[n].next].handler = Noop
                /\ heap'[heap'[n].next].next \notin old
                /\ heap'[heap'[heap'[n].next].next] = Node(NilHandler, NULL)

\* C14 (append splices before the terminal): every step that registers a
\* unit changes the heap as appendFrame says.
C14_AppendSplices == [][registered' # registered => appendFrame]_vars

\* New(A) then Use(B): the node of B (allocated last) sits between the node
\* of A and the terminal New made.
C14_Witness ==
  /\ registered = <<HandlerFunc("A"), HandlerFunc("B")>>
  /\ newLen = 1
  /\ chainPath(heap, n, Len(heap) + 1) = <<3, 4, 2, 1>>
  /\ Len(heap) = 4

----------------------------------------------------------------------------
(* C15 *)

NoNilUnit(units) == \A i \in 1..Len(units) : units[i] # NilHandler

\* One statement of a handler body can be taken.
StepEnabled ==
  ENABLED (Tok \/ WriteHeader \/ Write \/ WithValue \/ CallHandler
             \/ CallNext \/ Return)

\* C15 (traversal halts at the terminal): on a chain without a nil unit,
\* whichever units continue and however often, no serve call fails, the bare
\* node behind the terminal is never invoked, the terminal's no-op has an
\* empty body and calls no continuation, the call nests no deeper than the
\* units, the terminal and one plain handler, and the call goes on until its
\* last frame has returned, which ends it.
C15_HaltsAtTerminal ==
  NoNilUnit(registered) =>
    /\ phase # "panicked"
    /\ \A i \in 1..Len(stack) :
         /\ stack[i].m # Node(NilHandler, NULL)
         /\ stack[i].m.handler # NilHandler
         /\ stack[i].m.handler = Noop =>
              /\ FrameProg(stack[i]) = << >>
              /\ stack[i].calls = 0
              /\ i = Len(stack)
              /\ isVoidMiddleware(heap, stack[i].node)
    /\ Len(stack) <= Len(registered) + 2
    /\ phase = "serving" => (Len(stack) > 0 /\ StepEnabled)
    /\ phase = "done" => stack = << >>

\* The terminal's no-op runs for the second time under a unit that
\* continued twice.
C15_Witness ==
  /\ phase = "serving"
  /\ registered = <<HandlerFunc("A"), HandlerFunc("D")>>
  /\ Len(stack) = 3
  /\ stack[2].calls = 2
  /\ Top.m.handler = Noop

----------------------------------------------------------------------------
(* C16 *)

\* What running the chain from its i-th unit does when nothing else runs:
\* the tokens and the writes in order, and whether it returns (ok) or fails.
\* runOps is the body of unit i from its j-th statement on.
RECURSIVE runUnit(_, _)
RECURSIVE runOps(_, _, _)
runUnit(units, i) ==
  IF i > Len(units) THEN [toks |-> << >>, writes |-> << >>, ok |-> TRUE]
  ELSE IF units[i] = NilHandler
    THEN [toks |-> << >>, writes |-> << >>, ok |-> FALSE]
    ELSE runOps(units, i, 1)

runOps(units, i, j) ==
  LET ops == UnitOps(units[i])
  IN  IF j > Len(ops) THEN [toks |-> << >>, writes |-> << >>, ok |-> TRUE]
      ELSE IF ops[j][1] = "panic"
        THEN [toks |-> << >>, writes |-> << >>, ok |-> FALSE]
        ELSE LET first == IF ops[j][1] = "next"
                            THEN runUnit(units, i + 1)
                            ELSE [toks |-> ToksOf(units[i], << ops[j] >>),
                                  writes |-> WritesOf(<< ops[j] >>),
                                  ok |-> TRUE]
                 rest == runOps(units, i, j + 1)
             IN  IF first.ok
                   THEN [toks |-> first.toks \o rest.toks,
                         writes |-> first.writes \o rest.writes,
                         ok |-> rest.ok]
                   ELSE first

RECURSIVE Flat(_)
Flat(seqs) == IF Len(seqs) = 0 THEN << >> ELSE Head(seqs) \o Flat(Tail(seqs))

ContinuesTwice(h) == h # NilHandler /\ NextCalls(h) = 2

\* C16 (double continuation): when Uk continues twice, the units before it
\* continue once and the rest of the chain Uk+1..Un run on its own returns,
\* a serve call does what U1..Uk-1 do before continuing, what Uk does before
\* continuing, twice over what the rest of the chain does on its own, what Uk
\* does after, and what Uk-1..U1 do after continuing; it does not fail.
C16_DoubleContinuation ==
  \A k \in 1..Len(registered) :
    LET rest == runUnit(registered, k + 1)
        before == SubSeq(registered, 1, k - 1)
        toks == Flat(PreToks(before)) \o PreToks(registered)[k]
                  \o rest.toks \o rest.toks
                  \o PostToks(registered)[k] \o Flat(Reverse(PostToks(before)))
        writes == Flat(PreWrites(before)) \o PreWrites(registered)[k]
                    \o rest.writes \o rest.writes
                    \o PostWrites(registered)[k]
                    \o Flat(Reverse(PostWrites(before)))
    IN  (ContinuesTwice(registered[k]) /\ Reached(registered, k) /\ rest.ok) =>
          /\ phase # "panicked"
          /\ IsPrefix(Tokens(log), toks)
          /\ IsPrefix(sink, writes)
          /\ phase = "done" => (Tokens(log) = toks /\ sink = writes)

C16_Witness ==
  /\ phase = "done"
  /\ registered = <<HandlerFunc("A"), HandlerFunc("D"), HandlerFunc("B")>>
  /\ Tokens(log) = << <<"A", "enter">>, <<"D", "enter">>,
                      <<"B", "enter">>, <<"B", "exit">>,
                      <<"B", "enter">>, <<"B", "exit">>,
                      <<"D", "exit">>, <<"A", "exit">> >>
  /\ sink = << <<"body", "bar">>, <<"body", "baz">>,
               <<"body", "bar">>, <<"body", "baz">> >>

----------------------------------------------------------------------------
(* C17 *)

\* C17 (serving leaves the chain alone): as long as no unit is registered,
\* whatever serve calls are made, the head and every node are what they were
\* when noted, no node is added, Handlers() returns what it returned, and a
\* serve call emits the tokens and makes the writes of the serve call noted,
\* ending as it ended.
C17_ServeKeepsChain ==
  (ref.set /\ registered = ref.units) =>
    /\ n = ref.n
    /\ heap = ref.heap
    /\ Handlers(heap, n) = ref.handlers
    /\ (ref.phase \in {"done", "panicked"} /\ phase # "idle") =>
         /\ IsPrefix(Tokens(log), Tokens(ref.log))
         /\ IsPrefix(sink, ref.sink)
         /\ phase \in {"done", "panicked"} =>
              /\ phase = ref.phase
              /\ Tokens(log) = Tokens(ref.log)
              /\ sink = ref.sink
              /\ rw = ref.rw

\* A second serve call, with another context, has ended after the first one
\* was noted.
C17_Witness ==
  /\ ref.set
  /\ ref.phase = "done"
  /\ phase = "done"
  /\ req # ref.req
  /\ registered = <<HandlerFunc("B"), Wrap("P1"), HandlerFunc("S")>>
  /\ registered = ref.units
  /\ Tokens(log) = << <<"B", "enter">>, <<"S", "enter">>, <<"B", "exit">> >>

----------------------------------------------------------------------------
(* C18 *)

\* The call of the goroutine that is running.
ThisCall ==
  [phase |-> phase, stack |-> stack, log |-> log, sink |-> sink, rw |-> rw,
   req |-> req, under |-> under]

\* The status a wrapper of its own has observed after the writes in s.
OwnStatus(s) ==
  IF Len(s) = 0 THEN StatusUnset
  ELSE IF s[1][1] = "status" THEN s[1][2] ELSE StatusOK

\* The call c does what a call running alone on the chain does, as far as it
\* has got, and its wrapper has seen the writes of c and no others.
AsIfAlone(c) ==
  LET solo == runUnit(registered, 1)
  IN  /\ IsPrefix(Tokens(c.log), solo.toks)
      /\ IsPrefix(c.sink, solo.writes)
      /\ c.phase = "done" =>
           (solo.ok /\ Tokens(c.log) = solo.toks /\ c.sink = solo.writes)
      /\ c.phase = "panicked" =>
           (~solo.ok /\ Tokens(c.log) = solo.toks /\ c.sink = solo.writes)
      /\ c.rw.size = SumBodies(c.sink)
      /\ c.rw.status = OwnStatus(c.sink)

\* C18 (concurrent serves are independent): however the statements of two
\* serve calls on the same stack are interleaved, each call emits the tokens
\* and makes the writes of a call running alone, in that order, ends where it
\* ends, and has a wrapper that has observed its own writes only.
C18_ConcurrentServes == AsIfAlone(ThisCall) /\ AsIfAlone(other)

\* One call has ended while the other, started before, is between the two
\* writes of B.
C18_Witness ==
  /\ registered = <<HandlerFunc("B"), HandlerFunc("S")>>
  /\ phase = "done"
  /\ rw = [status |-> StatusOK, size |-> 11]
  /\ other.phase = "serving"
  /\ Len(other.stack) = 2
  /\ other.sink = << <<"body", "bar">>, <<"status", StatusBadRequest>> >>
  /\ other.rw = [status |-> StatusOK, size |-> 3]

----------------------------------------------------------------------------
(* C19 *)

\* C19 (first status wins): at every moment of a serve call the observed
\* status is unset when nothing was written, the code of the first write when
\* that was a status write, 200 when it was a body write, whatever status
\* writes came later; and the observed size is the sum of the lengths of the
\* bodies written so far.
C19_FirstStatusWins ==
  /\ sink = << >> => rw = NewResponseWriter
  /\ (sink # << >> /\ sink[1][1] = "status") => rw.status = sink[1][2]
  /\ (sink # << >> /\ sink[1][1] = "body") => rw.status = StatusOK
  /\ rw.size = SumBodies(sink)

\* S has written 400 and its body, and H has written 200 after it.
C19_Witness ==
  /\ phase = "done"
  /\ registered = <<HandlerFunc("H"), HandlerFunc("S")>>
  /\ sink = << <<"status", StatusBadRequest>>, <<"body", "hello">>,
               <<"status", StatusOK>> >>
  /\ rw = [status |-> StatusBadRequest, size |-> 5]

----------------------------------------------------------------------------
(* C20 *)

\* The units registered before and after the Use call made field by field.
UnitsBefore ==
  IF pending.st = "returned"
    THEN SubSeq(registered, 1, Len(registered) - 1)
    ELSE registered

UnitsAfter ==
  IF pending.st = "none" THEN registered
  ELSE Append(UnitsBefore, pending.h)

\* The serve call does what a call on the chain of these units does, as far
\* as it has got, and when it has returned all of it.
RunsExactly(units) ==
  LET solo == runUnit(units, 1)
  IN  /\ IsPrefix(Tokens(log), solo.toks)
      /\ IsPrefix(sink, solo.writes)
      /\ phase = "done" => (Tokens(log) = solo.toks /\ sink = solo.writes)

BeforeOrAfter == RunsExactly(UnitsBefore) \/ RunsExactly(UnitsAfter)

\* C20 as stated (append is atomic): whatever field writes of a Use call
\* have taken effect, a serve call runs exactly the units registered before
\* that Use or exactly those registered after it, and never fails on a node
\* whose handler is absent.
C20_AsStated ==
  NoNilUnit(UnitsAfter) => (BeforeOrAfter /\ phase # "panicked")

\* C20, amended: a serve call that returns has run exactly the units before
\* or exactly the units after the Use call; a serve call fails only while or
\* after a Use call wrote, on a continuation whose node it read without its
\* handler or its next, having run units of the chain in order; when the
\* writes take effect in program order this never happens on a chain of one
\* or more units, and on an empty chain happens only to a call that read the
\* head with the new handler and the old next, the bare node; and when the
\* Use call returns the chain is the one appendMiddleware makes.
C20_AppendNotAtomic ==
  NoNilUnit(UnitsAfter) =>
    /\ BeforeOrAfter
    /\ phase = "panicked" =>
         /\ pending.st # "none"
         /\ Len(stack) > 0
         /\ invokePanics(Top.bound)
         /\ pending.inOrder =>
              /\ newLen = 0
              /\ Len(stack) = 1
              /\ Top.m.handler = pending.h
              /\ Top.bound = Node(NilHandler, NULL)
    /\ pending.st = "returned" => heap = pending.expect

\* A serve call has run the new unit B behind A and returned before the Use
\* call of B has.
C20_Witness ==
  /\ pending.st = "writing"
  /\ pending.inOrder
  /\ registered = <<HandlerFunc("A")>>
  /\ pending.h = HandlerFunc("B")
  /\ phase = "done"
  /\ Tokens(log) = << <<"A", "enter">>, <<"B", "enter">>,
                      <<"B", "exit">>, <<"A", "exit">> >>

====
